---------------------------- MODULE Spec2Model ----------------------------
(***************************************************************************)
(* A model of the pgfplots crate: the Picture and Axis environments, their *)
(* option keys, and the text their fmt::Display implementations write.     *)
(*                                                                         *)
(* Text is a TLA+ string; \o is concatenation, so two texts are equal      *)
(* exactly when they are equal byte for byte.                               *)
(*                                                                         *)
(* A formatter run is a record [text, panicked]: text is what has been     *)
(* written to the formatter so far, panicked says that the run ended in a  *)
(* panic (todo!()) instead of returning Ok(()).                            *)
(***************************************************************************)
EXTENDS Naturals, Sequences, FiniteSets, TLC

VARIABLES
    keys,   \* Picture.keys  : Vec<PictureKey>              (lib.rs:42)
    axes,   \* Picture.axes  : Vec<Axis>                    (lib.rs:43)
    axis,   \* the Axis the caller holds: <<>> while there is none,
            \* <<a>> once Axis::new() has made one         (axis.rs:40-42)
    out,    \* the text written by the last Display run
    res,    \* how the last operation ended: "ok" or "panic"
    op,     \* the last operation performed
    arg,    \* the key passed to the last add_key / key rendering
    added   \* the keys passed to Picture::add_key since Picture::new()

vars == <<keys, axes, axis, out, res, op, arg, added>>

---------------------------------------------------------------------------
(* Bounds of the model. *)

MaxKeys == 3
MaxAxes == 2
MaxAxisKeys == 3

---------------------------------------------------------------------------
(* Values. *)

\* PictureKey (lib.rs:17-21): the only variant is Custom(String).
PictureKey == { [tag |-> "Custom", val |-> t] : t \in {"baseline", "scale=2", "thick"} }

\* XMode and YMode (axis.rs:69-75, 87-93).
XMode == {"Log", "Normal"}
YMode == {"Log", "Normal"}

\* AxisKey (axis.rs:9-17): Custom(String), XMode(XMode), YMode(YMode).
AxisKey ==
    { [tag |-> "Custom", val |-> t] : t \in {"grid=major"} }
    \cup { [tag |-> "XMode", val |-> v] : v \in XMode }
    \cup { [tag |-> "YMode", val |-> v] : v \in YMode }

\* The value arg holds before any key has been passed.
NoKey == [tag |-> "None", val |-> ""]

\* Axis (axis.rs:40-42): a struct with the one field keys.
Axis(ks) == [keys |-> ks]

---------------------------------------------------------------------------
(* fmt::Display of the keys and their values. *)

\* impl fmt::Display for PictureKey (lib.rs:23-29).
PictureKey_fmt(key) == key.val

\* impl fmt::Display for XMode (axis.rs:76-83).
XMode_fmt(v) == CASE v = "Log" -> "log" [] v = "Normal" -> "normal"

\* impl fmt::Display for YMode (axis.rs:94-101).
YMode_fmt(v) == CASE v = "Log" -> "log" [] v = "Normal" -> "normal"

AxisKey_fmt_SwappedName(key) ==
    CASE key.tag = "Custom" -> key.val
      [] key.tag = "XMode"  -> "ymode=" \o XMode_fmt(key.val)
      [] key.tag = "YMode"  -> "xmode=" \o YMode_fmt(key.val)

\* impl fmt::Display for AxisKey (axis.rs:19-27).
AxisKey_fmt(key) ==
    CASE key.tag = "Custom" -> key.val
      [] key.tag = "XMode"  -> "xmode=" \o XMode_fmt(key.val)
      [] key.tag = "YMode"  -> "ymode=" \o YMode_fmt(key.val)

---------------------------------------------------------------------------
(* fmt::Display of Axis. *)

\* The loop of axis.rs:51-53: write!(f, "\t{key},\n") for each key in order.
RECURSIVE Axis_fmt_keys(_)
Axis_fmt_keys(ks) ==
    IF ks = <<>> THEN ""
    ELSE "\t" \o AxisKey_fmt(Head(ks)) \o ",\n" \o Axis_fmt_keys(Tail(ks))

\* impl fmt::Display for Axis (axis.rs:44-65).  The todo!() of line 59 is
\* reached on every run, after the opening line has been written; the
\* write of "\end{axis}" (line 61) and the Ok(()) (line 63) come after it
\* and are never executed.
Axis_fmt(a) ==
    LET begin   == "\\begin{axis}"
        bracket == IF a.keys # <<>>
                   THEN "[\n" \o Axis_fmt_keys(a.keys) \o "]"
                   ELSE ""
    IN  [text |-> begin \o bracket \o "\n", panicked |-> TRUE]

---------------------------------------------------------------------------
(* fmt::Display of Picture. *)

\* The loop of lib.rs:53-55: writeln!(f, "\t{key},") for each key in order.
RECURSIVE Picture_fmt_keys(_)
Picture_fmt_keys(ks) ==
    IF ks = <<>> THEN ""
    ELSE "\t" \o PictureKey_fmt(Head(ks)) \o ",\n" \o Picture_fmt_keys(Tail(ks))

\* The loop of lib.rs:60-62: writeln!(f, "{axis}") for each axis in order.
\* f is the formatter run so far.  The axis writes into the same formatter;
\* a panic inside Axis::fmt ends the whole run with what was written.
RECURSIVE Picture_fmt_axes(_, _)
Picture_fmt_axes(f, axs) ==
    IF axs = <<>> THEN f
    ELSE LET r == Axis_fmt(Head(axs))
         IN  IF r.panicked
             THEN [text |-> f.text \o r.text, panicked |-> TRUE]
             ELSE Picture_fmt_axes(
                      [text |-> f.text \o r.text \o "\n", panicked |-> FALSE],
                      Tail(axs))

Picture_fmt_EmptyBrackets(ks, axs) ==
    LET head == "\\begin{tikzpicture}" \o "[\n" \o Picture_fmt_keys(ks) \o "]" \o "\n"
        body == Picture_fmt_axes([text |-> head, panicked |-> FALSE], axs)
    IN  IF body.panicked THEN body
        ELSE [text |-> body.text \o "\\end{tikzpicture}", panicked |-> FALSE]

Picture_fmt_WritelnBracket(ks, axs) ==
    LET bracket == IF ks # <<>>
                   THEN "[\n" \o Picture_fmt_keys(ks) \o "]\n"
                   ELSE ""
        head == "\\begin{tikzpicture}" \o bracket \o "\n"
        body == Picture_fmt_axes([text |-> head, panicked |-> FALSE], axs)
    IN  IF body.panicked THEN body
        ELSE [text |-> body.text \o "\\end{tikzpicture}", panicked |-> FALSE]

\* impl fmt::Display for Picture (lib.rs:46-68).
Picture_fmt(ks, axs) ==
    LET begin   == "\\begin{tikzpicture}"
        bracket == IF ks # <<>>
                   THEN "[\n" \o Picture_fmt_keys(ks) \o "]"
                   ELSE ""
        head    == begin \o bracket \o "\n"
        body    == Picture_fmt_axes([text |-> head, panicked |-> FALSE], axs)
    IN  IF body.panicked THEN body
        ELSE [text |-> body.text \o "\\end{tikzpicture}", panicked |-> FALSE]

---------------------------------------------------------------------------
(* Constructors and mutators. *)

\* Picture::new (lib.rs:80-82): Default::default(), both vectors empty.
Picture_new == [keys |-> <<>>, axes |-> <<>>]

Picture_add_key_Dedup(ks, key) ==
    Append(SelectSeq(ks, LAMBDA k : k # key), key)

Picture_add_key_Front(ks, key) == <<key>> \o ks

\* Picture::add_key (lib.rs:95-102): the match has the one arm
\* Custom(_) => (), then self.keys.push(key).
Picture_add_key(ks, key) == Append(ks, key)

\* Axis::new (not in the source; from the specification): an Axis with no
\* keys.
Axis_new == Axis(<<>>)

Axis_add_key_NoRemove(a, key) == Axis(Append(a.keys, key))

\* Axis::add_key (not in the source; from the specification): a Custom key
\* is appended; any other key first removes the earlier key of the same
\* variant and is then appended.
Axis_add_key(a, key) ==
    IF key.tag = "Custom"
    THEN Axis(Append(a.keys, key))
    ELSE Axis(Append(SelectSeq(a.keys, LAMBDA k : k.tag # key.tag), key))

\* The Axis values a caller has at hand to put into Picture.axes.  The
\* source gives a caller no way to make an Axis (the field keys is private
\* and there is no constructor), so these are values made with Axis::new
\* and Axis::add_key as the specification describes them.
AxisInputs ==
    { Axis_new,
      Axis_add_key(Axis_new, [tag |-> "XMode", val |-> "Log"]),
      Axis_add_key(Axis_add_key(Axis_new,
                                [tag |-> "Custom", val |-> "grid=major"]),
                   [tag |-> "YMode", val |-> "Normal"]) }

---------------------------------------------------------------------------
(* The state machine. *)

Init ==
    /\ keys = Picture_new.keys
    /\ axes = Picture_new.axes
    /\ axis = <<>>
    /\ out = ""
    /\ res = "ok"
    /\ op = "new"
    /\ arg = NoKey
    /\ added = <<>>

\* A panic ends the run: no later call of the sequence is made.
Running == res = "ok"

\* let picture = Picture::new();
New ==
    /\ Running
    /\ keys' = Picture_new.keys
    /\ axes' = Picture_new.axes
    /\ added' = <<>>
    /\ op' = "new"
    /\ arg' = NoKey
    /\ out' = ""
    /\ UNCHANGED <<axis, res>>

\* picture.add_key(key);
AddKey ==
    \E key \in PictureKey :
        /\ Running
        /\ Len(keys) < MaxKeys
        /\ keys' = Picture_add_key(keys, key)
        /\ added' = Append(added, key)
        /\ op' = "add_key"
        /\ arg' = key
        /\ UNCHANGED <<axes, axis, out, res>>

\* What a caller that has Axis values does with the pub field axes, a
\* Vec<Axis>.  With the source alone no caller has an Axis value, so none
\* of these steps is part of Next; they are part of NextAxes.

\* picture.axes.push(a);
PushAxis ==
    \E a \in AxisInputs :
        /\ Running
        /\ Len(axes) < MaxAxes
        /\ axes' = Append(axes, a)
        /\ op' = "axes_push"
        /\ UNCHANGED <<keys, axis, out, res, arg, added>>

\* picture.axes.pop();
PopAxis ==
    /\ Running
    /\ axes' = IF axes = <<>> THEN axes ELSE SubSeq(axes, 1, Len(axes) - 1)
    /\ op' = "axes_pop"
    /\ UNCHANGED <<keys, axis, out, res, arg, added>>

\* picture.axes.clear();
ClearAxes ==
    /\ Running
    /\ axes' = <<>>
    /\ op' = "axes_clear"
    /\ UNCHANGED <<keys, axis, out, res, arg, added>>

\* The indexes a caller passes to swap, insert and remove: those within the
\* vector and some beyond it.  (0-based in the source, 1-based here.)
AxisIndex == 1..(MaxAxes + 2)

\* picture.axes.swap(i, j);  an index that is not below the length panics
\* ("index out of bounds") and leaves the vector as it was.
SwapAxes ==
    \E i \in AxisIndex, j \in AxisIndex :
        /\ Running
        /\ IF i <= Len(axes) /\ j <= Len(axes)
           THEN /\ axes' = [axes EXCEPT ![i] = axes[j], ![j] = axes[i]]
                /\ res' = "ok"
           ELSE /\ axes' = axes
                /\ res' = "panic"
        /\ op' = "axes_swap"
        /\ UNCHANGED <<keys, axis, out, arg, added>>

\* picture.axes.insert(i, a);  an index above the length panics
\* ("insertion index ... should be <= len") and leaves the vector as it was.
InsertAxis ==
    \E a \in AxisInputs, i \in AxisIndex :
        /\ Running
        /\ IF i <= Len(axes) + 1
           THEN /\ Len(axes) < MaxAxes
                /\ axes' = SubSeq(axes, 1, i - 1) \o <<a>>
                               \o SubSeq(axes, i, Len(axes))
                /\ res' = "ok"
           ELSE /\ axes' = axes
                /\ res' = "panic"
        /\ op' = "axes_insert"
        /\ UNCHANGED <<keys, axis, out, arg, added>>

\* picture.axes.remove(i);  an index that is not below the length panics
\* ("removal index ... should be < len") and leaves the vector as it was.
RemoveAxis ==
    \E i \in AxisIndex :
        /\ Running
        /\ IF i <= Len(axes)
           THEN /\ axes' = SubSeq(axes, 1, i - 1) \o SubSeq(axes, i + 1, Len(axes))
                /\ res' = "ok"
           ELSE /\ axes' = axes
                /\ res' = "panic"
        /\ op' = "axes_remove"
        /\ UNCHANGED <<keys, axis, out, arg, added>>

\* picture.to_string(): Display::fmt takes &self.
Render ==
    /\ Running
    /\ LET f == Picture_fmt(keys, axes)
       IN  /\ out' = f.text
           /\ res' = IF f.panicked THEN "panic" ELSE "ok"
    /\ op' = "render"
    /\ UNCHANGED <<keys, axes, axis, arg, added>>

\* let axis = Axis::new();
AxisNew ==
    /\ Running
    /\ axis' = <<Axis_new>>
    /\ op' = "axis_new"
    /\ arg' = NoKey
    /\ out' = ""
    /\ UNCHANGED <<keys, axes, res, added>>

\* axis.add_key(key);
AxisAddKey ==
    \E key \in AxisKey :
        /\ Running
        /\ axis # <<>>
        /\ Len(Axis_add_key(axis[1], key).keys) <= MaxAxisKeys
        /\ axis' = <<Axis_add_key(axis[1], key)>>
        /\ op' = "axis_add_key"
        /\ arg' = key
        /\ UNCHANGED <<keys, axes, out, res, added>>

\* key.to_string() of an AxisKey.
AxisKeyRender ==
    \E key \in AxisKey :
        /\ Running
        /\ out' = AxisKey_fmt(key)
        /\ op' = "key_render"
        /\ arg' = key
        /\ UNCHANGED <<keys, axes, axis, res, added>>

\* axis.to_string(): Display::fmt takes &self.
AxisRender ==
    /\ Running
    /\ axis # <<>>
    /\ LET f == Axis_fmt(axis[1])
       IN  /\ out' = f.text
           /\ res' = IF f.panicked THEN "panic" ELSE "ok"
    /\ op' = "axis_render"
    /\ UNCHANGED <<keys, axes, axis, arg, added>>

\* The Picture and what a caller can do with it through the source as it
\* stands: no Axis value exists, so axes stays empty.
Next == New \/ AddKey \/ Render

Spec == Init /\ [][Next]_vars

\* The Picture in the hands of a caller that has Axis values (AxisInputs).
NextAxes ==
    \/ Next
    \/ PushAxis \/ PopAxis \/ ClearAxes \/ SwapAxes \/ InsertAxis \/ RemoveAxis

SpecAxes == Init /\ [][NextAxes]_vars

\* A stand-alone Axis and its keys, and what a caller does with them.
NextAxis == AxisNew \/ AxisAddKey \/ AxisKeyRender \/ AxisRender

SpecAxis == Init /\ [][NextAxis]_vars

---------------------------------------------------------------------------
(* The texts the specification describes, written out independently of the *)
(* fmt operators above.                                                    *)

XLog == [tag |-> "XMode", val |-> "Log"]
Baseline == [tag |-> "Custom", val |-> "baseline"]

\* The text of one axis key as the specification gives it.
ExpAxisKey(key) ==
    CASE key = [tag |-> "XMode", val |-> "Log"]    -> "xmode=log"
      [] key = [tag |-> "XMode", val |-> "Normal"] -> "xmode=normal"
      [] key = [tag |-> "YMode", val |-> "Log"]    -> "ymode=log"
      [] key = [tag |-> "YMode", val |-> "Normal"] -> "ymode=normal"
      [] key.tag = "Custom"                        -> key.val

\* Lines i..Len(ks) of a key list: a tab, the key, a comma, a line break.
RECURSIVE ExpLines(_, _, _)
ExpLines(Txt(_), ks, i) ==
    IF i > Len(ks) THEN ""
    ELSE "\t" \o Txt(ks[i]) \o ",\n" \o ExpLines(Txt, ks, i + 1)

ExpCustom(key) == key.val

\* The bracket section: nothing for no keys, else "[", the lines, "]".
ExpBracket(Txt(_), ks) ==
    IF Len(ks) = 0 THEN "" ELSE "[\n" \o ExpLines(Txt, ks, 1) \o "]"

\* The complete text of an axis, from \begin{axis} to \end{axis}.
ExpAxis(a) ==
    "\\begin{axis}" \o ExpBracket(ExpAxisKey, a.keys) \o "\n" \o "\\end{axis}"

\* The number of places at which pat occurs in text.
Occurrences(text, pat) ==
    Cardinality({ i \in 1..Len(text) :
                    /\ i + Len(pat) - 1 <= Len(text)
                    /\ SubSeq(text, i, i + Len(pat) - 1) = pat })

StartsWith(text, pat) ==
    Len(text) >= Len(pat) /\ SubSeq(text, 1, Len(pat)) = pat

EndsWith(text, pat) ==
    /\ Len(text) >= Len(pat)
    /\ SubSeq(text, Len(text) - Len(pat) + 1, Len(text)) = pat

CountTag(ks, tag) == Len(SelectSeq(ks, LAMBDA k : k.tag = tag))

---------------------------------------------------------------------------
(* Claims. *)

\* C1: a Picture made by Picture::new() has no keys and no axes, and the
\* rendering of a Picture with no keys and no axes is exactly the two lines
\* \begin{tikzpicture} and \end{tikzpicture} with one line break between
\* them: no bracket section, no trailing line break.
C1_EmptyPicture ==
    /\ op = "new" => (keys = <<>> /\ axes = <<>>)
    /\ (op = "render" /\ keys = <<>> /\ axes = <<>>) =>
           (res = "ok" /\ out = "\\begin{tikzpicture}\n\\end{tikzpicture}")

C1_Witness ==
    /\ op = "render" /\ res = "ok"
    /\ Len(keys) = 0 /\ Len(axes) = 0
    /\ Len(out) = 37

\* C2: in a run of add_key and render calls on a Picture (no axis pushed),
\* every render returns, and returns the keys added so far, in the order
\* added and without deduplication, one per tab-indented line ending in a
\* comma; the render leaves the Picture usable (it has not panicked and a
\* further render is possible).
C2_KeysInOrderAdded ==
    (op = "render" /\ axes = <<>>) =>
        /\ res = "ok"
        /\ out = "\\begin{tikzpicture}" \o ExpBracket(ExpCustom, added)
                     \o "\n" \o "\\end{tikzpicture}"
        /\ ENABLED Render
        /\ Len(keys) < MaxKeys => ENABLED AddKey

C2_Witness ==
    /\ op = "render" /\ res = "ok" /\ axes = <<>>
    /\ added = <<Baseline, Baseline>>
    /\ out = "\\begin{tikzpicture}[\n\tbaseline,\n\tbaseline,\n]\n\\end{tikzpicture}"

\* C3 (as claimed): rendering never aborts, neither the rendering of an
\* Axis nor that of a Picture holding axes.
C3_RenderNeverAborts ==
    op \in {"render", "axis_render"} => res = "ok"

\* C4 (as claimed): a Picture with the one key Custom("baseline") and no
\* axes renders with two line breaks between "]" and \end{tikzpicture}.
C4_BlankLineAfterBracket ==
    (op = "render" /\ keys = <<Baseline>> /\ axes = <<>>) =>
        out = "\\begin{tikzpicture}[\n\tbaseline,\n]\n\n\\end{tikzpicture}"

\* C4 (amended): a Picture with the one key Custom("baseline") and no axes
\* renders exactly \begin{tikzpicture}[, line break, tab baseline comma,
\* line break, ], one line break, \end{tikzpicture}.
C4_OneLineBreakAfterBracket ==
    (op = "render" /\ keys = <<Baseline>> /\ axes = <<>>) =>
        (res = "ok" /\
         out = "\\begin{tikzpicture}[\n\tbaseline,\n]\n\\end{tikzpicture}")

C4_Witness ==
    op = "render" /\ res = "ok" /\ keys = <<Baseline>> /\ Len(axes) = 0

\* C5 (as claimed): a Picture with the axes A1, A2 renders the opening
\* line, the complete text of A1 and a line break, the complete text of A2
\* and a line break, then \end{tikzpicture}.
C5_AxesInInsertionOrder ==
    (op = "render" /\ Len(axes) = 2) =>
        /\ res = "ok"
        /\ out = "\\begin{tikzpicture}" \o ExpBracket(ExpCustom, keys) \o "\n"
                     \o ExpAxis(axes[1]) \o "\n"
                     \o ExpAxis(axes[2]) \o "\n"
                     \o "\\end{tikzpicture}"

\* C6 (as claimed): a render of a Picture or of an Axis leaves the keys and
\* the axes of the rendered tree unchanged and returns a text, and a render
\* that directly follows a render of the same tree returns the same text.
C6_RenderPureRepeatable ==
    [][ /\ op' = "render" =>
               (keys' = keys /\ axes' = axes /\ res' = "ok")
        /\ op' = "axis_render" =>
               (axis' = axis /\ res' = "ok")
        /\ (op = "render" /\ op' = "render") => out' = out
        /\ (op = "axis_render" /\ op' = "axis_render") => out' = out
      ]_vars

\* C7 (as claimed): the rendering of an Axis returns a text that starts
\* with \begin{axis} and a line break when there are no keys, starts with
\* \begin{axis}[ and holds exactly n key lines before "]" when there are
\* n >= 1 keys, and ends with \end{axis} in both cases.
C7_AxisBracketIffKeys ==
    op = "axis_render" =>
        LET n == Len(axis[1].keys)
        IN  /\ res = "ok"
            /\ n = 0 => (StartsWith(out, "\\begin{axis}\n")
                         /\ Occurrences(out, "[") = 0
                         /\ Occurrences(out, "]") = 0)
            /\ n >= 1 => (StartsWith(out, "\\begin{axis}[\n")
                          /\ Occurrences(out, "\n\t") = n
                          /\ Occurrences(out, ",\n") = n
                          /\ Occurrences(out, "\n]") = 1)
            /\ EndsWith(out, "\\end{axis}")

\* C8: the text of an axis key depends on the key alone: Custom(text) is
\* text, XMode(v) is xmode= and YMode(v) is ymode= followed by log or
\* normal; and what the rendering of an Axis with the one key XMode(Log)
\* writes after \begin{axis} is the bracket section with the one line
\* tab xmode=log comma.
C8_KeyText ==
    /\ op = "key_render" => (res = "ok" /\ out = ExpAxisKey(arg))
    /\ (op = "axis_render" /\ axis = <<Axis(<<XLog>>)>>) =>
           SubSeq(out, Len("\\begin{axis}") + 1, Len(out)) = "[\n\txmode=log,\n]\n"

C8_Witness ==
    /\ op = "axis_render" /\ axis = <<Axis(<<XLog>>)>>
    /\ StartsWith(out, "\\begin{axis}[\n\txmode=log,\n]")

\* C9: after any run of add_key calls an Axis holds at most one XMode key
\* and at most one YMode key: add_key(k) removes the earlier key of k's
\* variant unless k is Custom, keeps every other key in place, and appends
\* k; no Custom key is ever removed.
C9_ExclusiveOnInsert ==
    /\ [](axis # <<>> => /\ CountTag(axis[1].keys, "XMode") <= 1
                          /\ CountTag(axis[1].keys, "YMode") <= 1)
    /\ [][ op' = "axis_add_key" =>
             LET old  == axis[1].keys
                 new  == axis'[1].keys
                 kept == SelectSeq(old, LAMBDA k :
                             k.tag = "Custom" \/ k.tag # arg'.tag)
             IN  /\ new[Len(new)] = arg'
                 /\ SubSeq(new, 1, Len(new) - 1) = kept
                 /\ CountTag(new, "Custom") =
                        CountTag(old, "Custom")
                            + (IF arg'.tag = "Custom" THEN 1 ELSE 0)
         ]_vars

C9_Witness ==
    /\ op = "axis_add_key"
    /\ Len(axis) = 1
    /\ axis[1].keys = << [tag |-> "Custom", val |-> "grid=major"],
                      [tag |-> "YMode", val |-> "Log"],
                      [tag |-> "XMode", val |-> "Normal"] >>

\* C10: Picture::add_key(k) changes only the end of the key list: the list
\* is one longer, every earlier key keeps its place, the last key is k, and
\* the axes are unchanged.
C10_AddKeyAppendsOnly ==
    [][ op' = "add_key" =>
          /\ Len(keys') = Len(keys) + 1
          /\ \A i \in 1..Len(keys) : keys'[i] = keys[i]
          /\ keys'[Len(keys')] = arg'
          /\ axes' = axes
      ]_vars

C10_Witness ==
    /\ op = "add_key" /\ Len(keys) = 2 /\ keys[1] # keys[2]
    /\ keys[2] = arg /\ Len(axes) = 1

=============================================================================
